---- MODULE Spec2Model ----
(***************************************************************************)
(* Model of alloc_experiments (src/src/lib.rs, src/src/main.rs): the       *)
(* process-wide AllocatorManager with its System / Arena / Pool backends,  *)
(* the context stack (ctx, ctx_ptr) and the Janitor guard.                 *)
(*                                                                         *)
(* Every atomic memory operation of the code is one step of the thread     *)
(* that performs it: fetch_add / fetch_sub / load / compare-exchange on    *)
(* an AtomicUsize, and the plain read or write of one ctx slot.            *)
(***************************************************************************)
EXTENDS Integers, Naturals, Sequences, FiniteSets, TLC

VARIABLES
    ctx,               \* AllocatorManager.ctx : [AllocationContext; 1024],
                       \*   held as the slots written so far (see ctx_at)
    ctx_ptr,           \* AllocatorManager.ctx_ptr
    system_allocated,  \* SystemAllocator.allocated
    remaining,         \* ArenaAllocator.remaining, PoolAllocator.remaining
    threads,           \* the threads of the process
    budget,            \* the number of calls the threads make in all
    seen,              \* every combination of values the three counters have held
    pc,                \* per thread: where it is inside a call
    local,             \* per thread: the locals of the call in progress
    ret,               \* per thread: what its last completed call returned
    held,              \* per thread: the Janitors alive (constructed, not dropped),
                       \*   innermost last, each with what it was constructed on
    started,           \* calls begun so far, by all threads
    allocs             \* history: every successful Arena/Pool allocation

vars == <<ctx, ctx_ptr, system_allocated, remaining, threads, budget, seen, pc, local, ret,
          held, started, allocs>>

----------------------------------------------------------------------------
(* Program constants *)

ARENA_SIZE == 128 * 1024
ARENA_MAX_SUPPORTED_ALIGN == 4096
POOL_SIZE == 128 * 1024
POOL_MAX_SUPPORTED_ALIGN == 4096
CTX_CAP == 1024

AllocationContext == {"Arena", "Pool", "System"}
BumpBackends == {"Arena", "Pool"}

BufferSize(b) == IF b = "Arena" THEN ARENA_SIZE ELSE POOL_SIZE
MaxSupportedAlign(b) ==
    IF b = "Arena" THEN ARENA_MAX_SUPPORTED_ALIGN ELSE POOL_MAX_SUPPORTED_ALIGN

(* Both buffers are #[repr(C, align(4096))]: the base address is a multiple *)
(* of 4096.  Arena and Pool are distinct objects; the bases chosen here are *)
(* two such addresses with the buffers apart.                               *)
BufferBase(b) == IF b = "Arena" THEN 4096 * 64 ELSE 4096 * 128

----------------------------------------------------------------------------
(* Bounds of the model *)

MaxOps == 3                      \* calls made in all, by two threads
MaxOpsSeq == 6                   \* calls made by a single thread
MaxOpsWide == 4                  \* calls made in all, by two threads, in SpecWide
AllThreads == {1, 2}

(* Layout::from_size_align(size, align): align is a power of two.  Half    *)
(* the buffer twice fills it exactly; 131073 exceeds it; 8192 exceeds the  *)
(* supported alignment.                                                    *)
Layouts == {[size |-> 0, align |-> 8192], [size |-> 3, align |-> 8192],
            [size |-> 3, align |-> 8], [size |-> 16, align |-> 8],
            [size |-> 65536, align |-> 4096], [size |-> 131073, align |-> 1]}

----------------------------------------------------------------------------
(* usize arithmetic.  Every value the program computes here stays below   *)
(* 2^18, so a word of 30 bits stands for the 64-bit usize: the mask        *)
(* !(align - 1) keeps all its high bits set, as in the code.               *)

UsizeMod == 2 ^ 30

WrappingAdd(a, b) == (a + b) % UsizeMod
WrappingSub(a, b) == (a - b) % UsizeMod

RECURSIVE BitAnd(_, _)
BitAnd(a, b) ==
    IF a = 0 \/ b = 0 THEN 0
    ELSE (IF a % 2 = 1 /\ b % 2 = 1 THEN 1 ELSE 0)
         + 2 * BitAnd(a \div 2, b \div 2)

BitNot(a) == (UsizeMod - 1) - a

----------------------------------------------------------------------------
(* Values *)

NoLocal == [idx |-> 0, c |-> "System", size |-> 0, align |-> 1,
            be |-> "System", prev |-> 0, i_sys |-> 0, i_arena |-> 0,
            old |-> "System"]

NoInfo == [system_allocated |-> 0, arena_allocated |-> 0, arena_remaining |-> 0,
           pool_allocated |-> 0, pool_remaining |-> 0]

NoRet == [op |-> "none", ok |-> FALSE, be |-> "System", ptr |-> 0,
          size |-> 0, align |-> 1, info |-> NoInfo]

(* null_mut() is address 0 *)
NullPtr == 0

(* The platform allocator's addresses are outside the model: one non-null *)
(* address away from both buffers stands for them.                        *)
SystemPtr == 4096

AllocRet(l, b, okv, p) ==
    [op |-> "alloc", ok |-> okv, be |-> b, ptr |-> p,
     size |-> l.size, align |-> l.align, info |-> NoInfo]

----------------------------------------------------------------------------
(* The array ctx.  ALLOCATOR initialises every slot to                     *)
(* AllocationContext::System; a slot never written still holds that.       *)
ctx_at(i) == IF i \in DOMAIN ctx THEN ctx[i] ELSE "System"

ctx_store(i, c) == [j \in DOMAIN ctx \cup {i} |-> IF j = i THEN c ELSE ctx[j]]

----------------------------------------------------------------------------
(* Initial states *)

Init ==
    /\ ctx = [i \in {} |-> "System"]
    /\ ctx_ptr = 0
    /\ system_allocated = 0
    /\ remaining = [b \in BumpBackends |-> BufferSize(b)]
    /\ threads = AllThreads
    /\ budget = MaxOps
    /\ seen = {<<0, ARENA_SIZE, POOL_SIZE>>}
    /\ pc = [t \in AllThreads |-> "idle"]
    /\ local = [t \in AllThreads |-> NoLocal]
    /\ ret = [t \in AllThreads |-> NoRet]
    /\ held = [t \in AllThreads |-> << >>]
    /\ started = 0
    /\ allocs = << >>

(* No thread has panicked: a panic here ends the process (see push_allocator_write). *)
Running == \A t \in threads : pc[t] # "panicked"

Active(t) == t \in threads /\ Running

Budget == budget

(* Thread t is between calls and begins one. *)
Call(t) ==
    /\ Active(t) /\ pc[t] = "idle" /\ started < Budget
    /\ started' = started + 1

(* Thread t goes on with the call it is in, at `label`. *)
At(t, label) == Active(t) /\ pc[t] = label /\ UNCHANGED started

Return(t, r) ==
    /\ pc' = [pc EXCEPT ![t] = "idle"]
    /\ local' = [local EXCEPT ![t] = NoLocal]
    /\ ret' = [ret EXCEPT ![t] = r]

Goto(t, label, l) ==
    /\ pc' = [pc EXCEPT ![t] = label]
    /\ local' = [local EXCEPT ![t] = l]
    /\ ret' = [ret EXCEPT ![t] = NoRet]

(* The combination of counter values a step leaves is added to those the  *)
(* allocator has been in.                                                  *)
RecordCounters ==
    seen' = seen \cup {<<system_allocated', remaining'["Arena"], remaining'["Pool"]>>}

(* As Goto, with the last call's result still in hand. *)
GotoKeep(t, label, l) ==
    /\ pc' = [pc EXCEPT ![t] = label]
    /\ local' = [local EXCEPT ![t] = l]
    /\ UNCHANGED ret

Panic(t) ==
    /\ pc' = [pc EXCEPT ![t] = "panicked"]
    /\ UNCHANGED <<local, ret>>

----------------------------------------------------------------------------
(* Context stack: push_allocator, pop_allocator, Janitor *)

(* A Janitor is a unit struct.  The model notes with each one the context  *)
(* it pushed and, for stating the round-trip properties, the top index and *)
(* the active context its constructor found.                               *)
Guard(c, at, was) == [c |-> c, at |-> at, was |-> was]
push_allocator_locked(t, c) ==
    /\ Call(t)
    /\ ctx_ptr' = WrappingAdd(ctx_ptr, 1)
    /\ ctx' = IF ctx_ptr + 1 < CTX_CAP THEN ctx_store(ctx_ptr + 1, c) ELSE ctx
    /\ Goto(t, "push_write", [NoLocal EXCEPT !.idx = ctx_ptr, !.c = c,
                                             !.be = ctx_at(ctx_ptr),
                                             !.old = ctx_at(ctx_ptr + 1)])
    /\ UNCHANGED <<system_allocated, remaining, threads, budget, seen, held, allocs>>

(* Janitor::new(ctx) -> push_allocator:                                    *)
(* let idx = self.ctx_ptr.fetch_add(1, SeqCst);                            *)
(* The model notes what was active (be) and what the slot about to be      *)
(* written holds (old) at this moment.                                     *)
push_allocator_fetch_add(t, c) ==
    /\ Call(t)
    /\ ctx_ptr' = WrappingAdd(ctx_ptr, 1)
    /\ Goto(t, "push_write", [NoLocal EXCEPT !.idx = ctx_ptr, !.c = c,
                                             !.be = ctx_at(ctx_ptr),
                                             !.old = ctx_at(ctx_ptr + 1)])
    /\ UNCHANGED <<ctx, system_allocated, remaining, threads, budget, seen, held, allocs>>

(* self.ctx[idx + 1] = ctx;  the index is bounds-checked: out of range it  *)
(* panics, with ctx_ptr already advanced.  Janitor::new then never returns *)
(* a guard.  The panic machinery allocates through GlobalAlloc::alloc,     *)
(* which indexes ctx with the out-of-range ctx_ptr and panics again: the   *)
(* process ends.                                                           *)
push_slot_wrong(idx) == idx

(* Add 1 because fetch-add returns the previous value. *)
push_slot(idx) == idx + 1
push_allocator_write_copy(t) ==
    /\ At(t, "push_write")
    /\ IF push_slot(local[t].idx) < CTX_CAP
       THEN /\ ctx' = ctx
            /\ held' = [held EXCEPT ![t] =
                           Append(held[t], Guard(local[t].c, local[t].idx, local[t].be))]
            /\ Return(t, [NoRet EXCEPT !.op = "push", !.ok = TRUE, !.be = local[t].c])
       ELSE /\ Panic(t)
            /\ UNCHANGED <<ctx, held>>
    /\ UNCHANGED <<ctx_ptr, system_allocated, remaining, threads, budget, seen, allocs>>

push_allocator_write_top(t) ==
    /\ At(t, "push_write")
    /\ IF ctx_ptr < CTX_CAP
       THEN /\ ctx' = ctx_store(ctx_ptr, local[t].c)
            /\ held' = [held EXCEPT ![t] =
                           Append(held[t], Guard(local[t].c, local[t].idx, local[t].be))]
            /\ Return(t, [NoRet EXCEPT !.op = "push", !.ok = TRUE, !.be = local[t].c])
       ELSE /\ Panic(t)
            /\ UNCHANGED <<ctx, held>>
    /\ UNCHANGED <<ctx_ptr, system_allocated, remaining, threads, budget, seen, allocs>>

push_allocator_write(t) ==
    /\ At(t, "push_write")
    /\ IF push_slot(local[t].idx) < CTX_CAP
       THEN /\ ctx' = ctx_store(push_slot(local[t].idx), local[t].c)
            /\ held' = [held EXCEPT ![t] =
                           Append(held[t], Guard(local[t].c, local[t].idx, local[t].be))]
            /\ Return(t, [NoRet EXCEPT !.op = "push", !.ok = TRUE, !.be = local[t].c])
       ELSE /\ Panic(t)
            /\ UNCHANGED <<ctx, held>>
    /\ UNCHANGED <<ctx_ptr, system_allocated, remaining, threads, budget, seen, allocs>>
pop_allocator_restore(t) ==
    /\ Call(t) /\ held[t] # << >>
    /\ ctx_ptr' = held[t][Len(held[t])].at
    /\ held' = [held EXCEPT ![t] = SubSeq(held[t], 1, Len(held[t]) - 1)]
    /\ Return(t, [NoRet EXCEPT !.op = "pop", !.ok = TRUE])
    /\ UNCHANGED <<ctx, system_allocated, remaining, threads, budget, seen, allocs>>

pop_allocator_forgotten(t) ==
    /\ Call(t) /\ held[t] # << >>
    /\ ctx_ptr' = ctx_ptr
    /\ held' = [held EXCEPT ![t] = SubSeq(held[t], 1, Len(held[t]) - 1)]
    /\ Return(t, [NoRet EXCEPT !.op = "pop", !.ok = TRUE])
    /\ UNCHANGED <<ctx, system_allocated, remaining, threads, budget, seen, allocs>>

(* Drop for Janitor -> pop_allocator: self.ctx_ptr.fetch_sub(1, SeqCst); *)
pop_allocator(t) ==
    /\ Call(t) /\ held[t] # << >>
    /\ ctx_ptr' = WrappingSub(ctx_ptr, 1)
    /\ held' = [held EXCEPT ![t] = SubSeq(held[t], 1, Len(held[t]) - 1)]
    /\ Return(t, [NoRet EXCEPT !.op = "pop", !.ok = TRUE])
    /\ UNCHANGED <<ctx, system_allocated, remaining, threads, budget, seen, allocs>>

----------------------------------------------------------------------------
(* GlobalAlloc for AllocatorManager *)

(* self.ctx_ptr.load(Acquire) *)
alloc_load_ctx_ptr(t, size, align) ==
    /\ Call(t)
    /\ Goto(t, "dispatch", [NoLocal EXCEPT !.idx = ctx_ptr, !.size = size, !.align = align])
    /\ UNCHANGED <<ctx, ctx_ptr, system_allocated, remaining, threads, budget, seen, held, allocs>>

dispatch_backend_pasted(c) ==
    CASE c = "Arena" -> "Arena"
      [] c = "Pool" -> "Arena"
      [] c = "System" -> "System"

(* The arms of the match in GlobalAlloc::alloc: the backend each context   *)
(* forwards to.                                                            *)
dispatch_backend(c) ==
    CASE c = "Arena" -> "Arena"
      [] c = "Pool" -> "Pool"
      [] c = "System" -> "System"

align_rejected_never(align, b) == FALSE

(* if align > ARENA_MAX_SUPPORTED_ALIGN { return null_mut(); } *)
align_rejected(align, b) == align > MaxSupportedAlign(b)

(* match self.ctx[idx] { Arena => .., Pool => .., System => .. }, and the  *)
(* backend's entry up to its first access to shared memory: the bump       *)
(* backends reject align > MAX_SUPPORTED_ALIGN.  The slot is read without  *)
(* synchronisation with push_allocator's write of it: the read sees the    *)
(* slot as it is before or after that write, whichever step comes first.   *)
(* An index out of range panics, as in push_allocator_write.               *)
alloc_dispatch(t) ==
    /\ At(t, "dispatch")
    /\ IF local[t].idx >= CTX_CAP
       THEN Panic(t)
       ELSE LET c == dispatch_backend(ctx_at(local[t].idx))
                l == [local[t] EXCEPT !.be = c]
            IN  IF c = "System"
                THEN Goto(t, "system_alloc", l)
                ELSE IF align_rejected(l.align, c)
                     THEN Return(t, AllocRet(l, c, FALSE, NullPtr))
                     ELSE Goto(t, "fetch_update_load", l)
    /\ UNCHANGED <<ctx, ctx_ptr, system_allocated, remaining, threads, budget, seen, held, allocs>>

SystemAllocator_alloc_eager(t) ==
    /\ At(t, "system_alloc")
    /\ system_allocated' = WrappingAdd(system_allocated, local[t].size)
    /\ \E success \in BOOLEAN :
         IF success
         THEN Return(t, AllocRet(local[t], "System", TRUE, SystemPtr))
         ELSE Return(t, AllocRet(local[t], "System", FALSE, NullPtr))
    /\ UNCHANGED <<ctx, ctx_ptr, remaining, threads, budget, held, allocs>>
    /\ RecordCounters

(* SystemAllocator::alloc: System.alloc(layout) succeeds or returns null;  *)
(* on success allocated.fetch_add(layout.size()).                          *)
SystemAllocator_alloc(t) ==
    /\ At(t, "system_alloc")
    /\ \E success \in BOOLEAN :
         IF success
         THEN /\ system_allocated' = WrappingAdd(system_allocated, local[t].size)
              /\ Return(t, AllocRet(local[t], "System", TRUE, SystemPtr))
         ELSE /\ UNCHANGED system_allocated
              /\ Return(t, AllocRet(local[t], "System", FALSE, NullPtr))
    /\ UNCHANGED <<ctx, ctx_ptr, remaining, threads, budget, held, allocs>>
    /\ RecordCounters

fetch_update_f_no_sub(r, size, align) ==
    IF size > r
    THEN [some |-> FALSE, v |-> 0]
    ELSE [some |-> TRUE, v |-> BitAnd(r, BitNot(align - 1))]

fetch_update_f_no_mask(r, size, align) ==
    IF size > r
    THEN [some |-> FALSE, v |-> 0]
    ELSE [some |-> TRUE, v |-> r - size]

fetch_update_f_saturating(r, size, align) ==
    IF size > r
    THEN [some |-> TRUE, v |-> 0]
    ELSE [some |-> TRUE, v |-> BitAnd(r - size, BitNot(align - 1))]

fetch_update_f_unchecked(r, size, align) ==
    [some |-> TRUE, v |-> BitAnd(WrappingSub(r, size), BitNot(align - 1))]

fetch_update_f_round_up(r, size, align) ==
    IF size > r
    THEN [some |-> FALSE, v |-> 0]
    ELSE [some |-> TRUE, v |-> BitAnd(r - size + (align - 1), BitNot(align - 1))]

(* The closure given to fetch_update: None, or Some(new remaining). *)
fetch_update_f(r, size, align) ==
    IF size > r
    THEN [some |-> FALSE, v |-> 0]
    ELSE [some |-> TRUE, v |-> BitAnd(r - size, BitNot(align - 1))]

(* fetch_update: let mut prev = self.load(fetch_order); and the first      *)
(* evaluation of the closure on it.                                        *)
fetch_update_load(t) ==
    /\ At(t, "fetch_update_load")
    /\ LET b == local[t].be
           r == remaining[b]
       IN  IF fetch_update_f(r, local[t].size, local[t].align).some
           THEN Goto(t, "fetch_update_cas", [local[t] EXCEPT !.prev = r])
           ELSE Return(t, AllocRet(local[t], b, FALSE, NullPtr))
    /\ UNCHANGED <<ctx, ctx_ptr, system_allocated, remaining, threads, budget, seen, held, allocs>>

fetch_update_cas_store(t) ==
    /\ At(t, "fetch_update_cas")
    /\ LET b == local[t].be
           next == fetch_update_f(local[t].prev, local[t].size, local[t].align).v
       IN  /\ remaining' = [remaining EXCEPT ![b] = next]
           /\ allocs' = Append(allocs, [be |-> b, ptr |-> BufferBase(b) + next,
                                        size |-> local[t].size,
                                        align |-> local[t].align])
           /\ Return(t, AllocRet(local[t], b, TRUE, BufferBase(b) + next))
    /\ UNCHANGED <<ctx, ctx_ptr, system_allocated, threads, budget, held>>
    /\ RecordCounters

fetch_update_cas_stale(t) ==
    /\ At(t, "fetch_update_cas")
    /\ LET b == local[t].be
           next == fetch_update_f(local[t].prev, local[t].size, local[t].align).v
           cur == remaining[b]
       IN  IF cur = local[t].prev
           THEN /\ remaining' = [remaining EXCEPT ![b] = next]
                /\ allocs' = Append(allocs, [be |-> b, ptr |-> BufferBase(b) + next,
                                             size |-> local[t].size,
                                             align |-> local[t].align])
                /\ Return(t, AllocRet(local[t], b, TRUE, BufferBase(b) + next))
           ELSE /\ UNCHANGED <<remaining, allocs>>
                /\ Goto(t, "fetch_update_cas", local[t])
    /\ UNCHANGED <<ctx, ctx_ptr, system_allocated, threads, budget, held>>
    /\ RecordCounters

(* fetch_update: compare_exchange_weak(prev, next); Ok ends the loop and   *)
(* the call returns base.add(allocated); Err(next_prev) re-evaluates the   *)
(* closure on the value read.  A spurious failure of the weak exchange     *)
(* returns the value prev already holds and leaves the state as it is: a   *)
(* stuttering step.                                                        *)
fetch_update_cas(t) ==
    /\ At(t, "fetch_update_cas")
    /\ LET b == local[t].be
           next == fetch_update_f(local[t].prev, local[t].size, local[t].align).v
           cur == remaining[b]
       IN  IF cur = local[t].prev
           THEN /\ remaining' = [remaining EXCEPT ![b] = next]
                /\ allocs' = Append(allocs, [be |-> b, ptr |-> BufferBase(b) + next,
                                             size |-> local[t].size,
                                             align |-> local[t].align])
                /\ Return(t, AllocRet(local[t], b, TRUE, BufferBase(b) + next))
           ELSE /\ UNCHANGED <<remaining, allocs>>
                /\ IF fetch_update_f(cur, local[t].size, local[t].align).some
                   THEN Goto(t, "fetch_update_cas", [local[t] EXCEPT !.prev = cur])
                   ELSE Return(t, AllocRet(local[t], b, FALSE, NullPtr))
    /\ UNCHANGED <<ctx, ctx_ptr, system_allocated, threads, budget, held>>
    /\ RecordCounters

(* SystemAllocator::dealloc: self.allocated.fetch_sub(layout.size(), SeqCst). *)
(* Nothing in the program calls it; it is what AllocatorManager::dealloc      *)
(* would do if it forwarded to the System backend.                            *)
SystemAllocator_dealloc(t, size) ==
    /\ system_allocated' = WrappingSub(system_allocated, size)
    /\ UNCHANGED <<ctx, ctx_ptr, remaining>>

(* unsafe fn dealloc(&self, _ptr: *mut u8, _layout: Layout) {} *)
AllocatorManager_dealloc(t, size) ==
    /\ UNCHANGED <<ctx, ctx_ptr, system_allocated, remaining>>

GlobalAlloc_dealloc(t, size) ==
    /\ Call(t)
    /\ AllocatorManager_dealloc(t, size)
    /\ Return(t, [NoRet EXCEPT !.op = "dealloc", !.ok = TRUE])
    /\ UNCHANGED <<threads, budget, seen, held, allocs>>

----------------------------------------------------------------------------
(* AllocatorManager::info *)
info_load_system_swap(t) ==
    /\ Call(t)
    /\ GotoKeep(t, "info_arena", [NoLocal EXCEPT !.i_sys = system_allocated])
    /\ system_allocated' = 0
    /\ UNCHANGED <<ctx, ctx_ptr, remaining, threads, budget, held, allocs>>
    /\ RecordCounters

info_load_system(t) ==
    /\ Call(t)
    /\ GotoKeep(t, "info_arena", [NoLocal EXCEPT !.i_sys = system_allocated])
    /\ UNCHANGED <<ctx, ctx_ptr, system_allocated, remaining, threads, budget, seen, held, allocs>>

info_load_arena(t) ==
    /\ At(t, "info_arena")
    /\ GotoKeep(t, "info_pool", [local[t] EXCEPT !.i_arena = remaining["Arena"]])
    /\ UNCHANGED <<ctx, ctx_ptr, system_allocated, remaining, threads, budget, seen, held, allocs>>

info_load_pool_locked(t) ==
    /\ At(t, "info_pool")
    /\ Return(t, [NoRet EXCEPT !.op = "info", !.ok = TRUE, !.info =
             [system_allocated |-> system_allocated,
              arena_allocated |-> ARENA_SIZE - remaining["Arena"],
              arena_remaining |-> remaining["Arena"],
              pool_allocated |-> POOL_SIZE - remaining["Pool"],
              pool_remaining |-> remaining["Pool"]]])
    /\ UNCHANGED <<ctx, ctx_ptr, system_allocated, remaining, threads, budget, seen, held, allocs>>

info_load_pool(t) ==
    /\ At(t, "info_pool")
    /\ LET pool_remaining == remaining["Pool"]
           arena_remaining == local[t].i_arena
       IN  Return(t, [NoRet EXCEPT !.op = "info", !.ok = TRUE, !.info =
                 [system_allocated |-> local[t].i_sys,
                  arena_allocated |-> ARENA_SIZE - arena_remaining,
                  arena_remaining |-> arena_remaining,
                  pool_allocated |-> POOL_SIZE - pool_remaining,
                  pool_remaining |-> pool_remaining]])
    /\ UNCHANGED <<ctx, ctx_ptr, system_allocated, remaining, threads, budget, seen, held, allocs>>

----------------------------------------------------------------------------

Next ==
    \E t \in AllThreads :
        \/ \E c \in AllocationContext : push_allocator_fetch_add(t, c)
        \/ push_allocator_write(t)
        \/ pop_allocator(t)
        \/ \E layout \in Layouts : alloc_load_ctx_ptr(t, layout.size, layout.align)
        \/ alloc_dispatch(t)
        \/ SystemAllocator_alloc(t)
        \/ fetch_update_load(t)
        \/ fetch_update_cas(t)
        \/ \E layout \in Layouts : GlobalAlloc_dealloc(t, layout.size)
        \/ info_load_system(t)
        \/ info_load_arena(t)
        \/ info_load_pool(t)

Spec == Init /\ [][Next]_vars

(* The same program run by one thread. *)
InitSeq ==
    /\ ctx = [i \in {} |-> "System"]
    /\ ctx_ptr = 0
    /\ system_allocated = 0
    /\ remaining = [b \in BumpBackends |-> BufferSize(b)]
    /\ threads = {1}
    /\ budget = MaxOpsSeq
    /\ seen = {<<0, ARENA_SIZE, POOL_SIZE>>}
    /\ pc = [t \in AllThreads |-> "idle"]
    /\ local = [t \in AllThreads |-> NoLocal]
    /\ ret = [t \in AllThreads |-> NoRet]
    /\ held = [t \in AllThreads |-> << >>]
    /\ started = 0
    /\ allocs = << >>

SpecSeq == InitSeq /\ [][Next]_vars

(* The program after thread 1 has nested CTX_CAP - 1 Janitor::new(Arena):  *)
(* every slot above slot 0 is in use and ctx_ptr is at the last one.       *)
InitDeep ==
    /\ ctx = [i \in 1 .. CTX_CAP - 1 |-> "Arena"]
    /\ ctx_ptr = CTX_CAP - 1
    /\ system_allocated = 0
    /\ remaining = [b \in BumpBackends |-> BufferSize(b)]
    /\ threads = AllThreads
    /\ budget = MaxOps
    /\ seen = {<<0, ARENA_SIZE, POOL_SIZE>>}
    /\ pc = [t \in AllThreads |-> "idle"]
    /\ local = [t \in AllThreads |-> NoLocal]
    /\ ret = [t \in AllThreads |-> NoRet]
    /\ held = [t \in AllThreads |->
                 IF t = 1 THEN [i \in 1 .. CTX_CAP - 1 |-> Guard("Arena", i - 1, ctx_at(i - 1))]
                          ELSE << >>]
    /\ started = 0
    /\ allocs = << >>

SpecDeep == InitDeep /\ [][Next]_vars

(* Two threads, one call more than in Spec. *)
InitWide ==
    /\ ctx = [i \in {} |-> "System"]
    /\ ctx_ptr = 0
    /\ system_allocated = 0
    /\ remaining = [b \in BumpBackends |-> BufferSize(b)]
    /\ threads = AllThreads
    /\ budget = MaxOpsWide
    /\ seen = {<<0, ARENA_SIZE, POOL_SIZE>>}
    /\ pc = [t \in AllThreads |-> "idle"]
    /\ local = [t \in AllThreads |-> NoLocal]
    /\ ret = [t \in AllThreads |-> NoRet]
    /\ held = [t \in AllThreads |-> << >>]
    /\ started = 0
    /\ allocs = << >>

SpecWide == InitWide /\ [][Next]_vars

(* A thread inside a call executes its next step. *)
Continue(t) ==
    \/ push_allocator_write(t)
    \/ alloc_dispatch(t)
    \/ SystemAllocator_alloc(t)
    \/ fetch_update_load(t)
    \/ fetch_update_cas(t)
    \/ info_load_arena(t)
    \/ info_load_pool(t)

(* Native threads: the scheduler runs every thread that can take a step. *)
SpecFair == Init /\ [][Next]_vars /\ \A t \in AllThreads : WF_vars(Continue(t))

----------------------------------------------------------------------------
(* Properties *)

BumpAllocs(b) == {i \in DOMAIN allocs : allocs[i].be = b}

Offset(a) == a.ptr - BufferBase(a.be)

MinOf(S) == CHOOSE x \in S : \A y \in S : x <= y

(* The bytes of buffer b used up so far, padding included: allocation goes *)
(* from the top down, so it is everything above the lowest offset handed   *)
(* out.                                                                    *)
Footprint(b) ==
    IF BumpAllocs(b) = {} THEN 0
    ELSE BufferSize(b) - MinOf({Offset(allocs[i]) : i \in BumpAllocs(b)})

Disjoint(a1, a2) ==
    \/ Offset(a1) + a1.size <= Offset(a2)
    \/ Offset(a2) + a2.size <= Offset(a1)

BumpRet(r) == r.op = "alloc" /\ r.be \in BumpBackends

(* C1: within one bump backend, a request with a supported alignment that  *)
(* still fits (bytes used so far, padding included, plus its size is at    *)
(* most 131072) succeeds; what a successful call returns is the range it   *)
(* reserved; every reserved range [off, off + size) lies inside            *)
(* [0, 131072) of its buffer; and no two reserved ranges of one backend    *)
(* overlap.                                                                *)
C1_FitsSucceedsInsideDisjoint ==
    /\ \A t \in threads :
         /\ (BumpRet(ret[t]) /\ ~ret[t].ok /\ ret[t].align <= MaxSupportedAlign(ret[t].be))
               => Footprint(ret[t].be) + ret[t].size > BufferSize(ret[t].be)
         /\ (BumpRet(ret[t]) /\ ret[t].ok)
               => \E i \in DOMAIN allocs :
                     allocs[i] = [be |-> ret[t].be, ptr |-> ret[t].ptr,
                                  size |-> ret[t].size, align |-> ret[t].align]
    /\ \A i \in DOMAIN allocs :
         /\ Offset(allocs[i]) >= 0
         /\ Offset(allocs[i]) + allocs[i].size <= BufferSize(allocs[i].be)
    /\ \A i, j \in DOMAIN allocs :
         (i < j /\ allocs[i].be = allocs[j].be) => Disjoint(allocs[i], allocs[j])

(* Two allocations that needed padding between them were made in the      *)
(* arena, the second one returned to its caller.                           *)
C1_Witness ==
    \E i, j \in BumpAllocs("Arena") :
        /\ i < j /\ allocs[i].size > 0 /\ allocs[j].size > 0
        /\ Offset(allocs[j]) + allocs[j].size < Offset(allocs[i])
        /\ \E t \in threads : BumpRet(ret[t]) /\ ret[t].ok /\ ret[t].ptr = allocs[j].ptr

(* C2: every pointer a bump backend returns for a power-of-two alignment   *)
(* a <= 4096 is a multiple of a.                                           *)
C2_PointerAligned ==
    /\ \A i \in DOMAIN allocs : allocs[i].ptr % allocs[i].align = 0
    /\ \A t \in threads :
         (BumpRet(ret[t]) /\ ret[t].ok) => ret[t].ptr % ret[t].align = 0

(* A 4096-aligned pointer was returned after an allocation that left the   *)
(* counter off every 8-byte boundary before rounding.                      *)
C2_Witness ==
    \E i, j \in DOMAIN allocs :
        /\ i < j /\ allocs[i].be = allocs[j].be
        /\ allocs[i].size = 3 /\ allocs[j].align = 4096
        /\ (Offset(allocs[i]) - allocs[j].size) % 4096 # 0

InBump(t) == pc[t] \in {"fetch_update_load", "fetch_update_cas"}

Stepped(t) == pc'[t] # pc[t] \/ local'[t] # local[t]

(* C3: whenever a thread inside a bump alloc asks for more than the        *)
(* backend's remaining counter holds, its next step ends the call with     *)
(* null and leaves both remaining counters as they were (the dispatching   *)
(* step before it changes no counter either); this holds with other        *)
(* threads allocating in between.                                          *)
C3_OversizeFailsUnchanged ==
    [][\A t \in threads :
         /\ (InBump(t) /\ local[t].size > remaining[local[t].be] /\ Stepped(t))
               => /\ remaining' = remaining
                  /\ pc'[t] = "idle"
                  /\ ret'[t] = AllocRet(local[t], local[t].be, FALSE, NullPtr)
         /\ (pc[t] = "dispatch" /\ Stepped(t)) => remaining' = remaining]_vars

(* A request of more than 128 KiB has failed in the pool, with a supported *)
(* alignment, after an allocation had moved the pool's counter.            *)
C3_Witness ==
    \E t \in threads :
        /\ BumpRet(ret[t]) /\ ~ret[t].ok /\ ret[t].be = "Pool"
        /\ ret[t].align <= POOL_MAX_SUPPORTED_ALIGN
        /\ ret[t].size > POOL_SIZE
        /\ 0 < remaining["Pool"] /\ remaining["Pool"] < POOL_SIZE

(* C4: a bump alloc with an alignment above 4096 returns null, whatever    *)
(* the size and the remaining counter; no range is ever reserved for one.  *)
C4_BigAlignFails ==
    /\ \A t \in threads :
         (BumpRet(ret[t]) /\ ret[t].align > 4096) => (~ret[t].ok /\ ret[t].ptr = NullPtr)
    /\ \A i \in DOMAIN allocs : allocs[i].align <= 4096

(* An 8192-aligned request of size 0 was refused by a backend that still   *)
(* had room, after an allocation had moved its counter.                    *)
C4_Witness ==
    \E t \in threads :
        /\ BumpRet(ret[t]) /\ ret[t].align = 8192 /\ ret[t].size = 0
        /\ remaining[ret[t].be] > 0
        /\ remaining[ret[t].be] < BufferSize(ret[t].be)

AllocPcs == {"dispatch", "system_alloc", "fetch_update_load", "fetch_update_cas"}

(* ContextStack.current() *)
Current == ctx_at(ctx_ptr)

(* C5: run by one thread, every step of an alloc call leaves the stack     *)
(* alone; the dispatching step selects the backend named by the context at *)
(* the top of the stack; the call changes no counter but that backend's;   *)
(* and a call that returns failure has changed no counter at all.          *)
C5_DispatchFrame ==
    [][\A t \in threads :
         (pc[t] \in AllocPcs /\ Stepped(t))
            => /\ ctx' = ctx /\ ctx_ptr' = ctx_ptr
               /\ pc[t] = "dispatch"
                    => IF pc'[t] = "idle" THEN ret'[t].be = Current
                                          ELSE local'[t].be = Current
               /\ Current # "System" => system_allocated' = system_allocated
               /\ \A b \in BumpBackends : Current # b => remaining'[b] = remaining[b]
               /\ (pc'[t] = "idle" /\ ~ret'[t].ok)
                    => (system_allocated' = system_allocated /\ remaining' = remaining)]_vars

(* With Pool on top, a request failed in the pool although the arena and   *)
(* the system counter had been used before and the arena had room for it:  *)
(* nothing fell back.                                                      *)
C5_Witness ==
    \E t \in threads :
        /\ pc[t] = "idle" /\ Current = "Pool"
        /\ ret[t].op = "alloc" /\ ret[t].be = "Pool" /\ ~ret[t].ok
        /\ ret[t].align <= ARENA_MAX_SUPPORTED_ALIGN
        /\ ret[t].size <= remaining["Arena"]
        /\ system_allocated > 0

PopStep(t) == Len(held'[t]) < Len(held[t])

(* C6: run by one thread, dropping a guard sets the top index and the      *)
(* active context back to what that guard's constructor found: push(C);    *)
(* pop() leaves current() as it was.  With a second guard outside it, the  *)
(* drop of the inner one makes the outer one's context active at the index *)
(* the outer push left, so that the outer drop returns the stack to its    *)
(* state before the nesting.                                               *)
C6_PushPopRoundTrip ==
    [][\A t \in threads :
         PopStep(t) =>
            LET n == Len(held[t])
                g == held[t][n]
            IN  /\ ctx_ptr' = g.at
                /\ Current' = g.was
                /\ n >= 2 => (g.at = held[t][n - 1].at + 1 /\ g.was = held[t][n - 1].c)]_vars

(* Arena then Pool were pushed on the empty stack and both guards were     *)
(* dropped: the index is 0 and System is active again.                     *)
C6_Witness ==
    /\ pc[1] = "idle" /\ ret[1].op = "pop" /\ held[1] = << >>
    /\ ctx_at(1) = "Arena" /\ ctx_at(2) = "Pool"
    /\ ctx_ptr = 0 /\ Current = "System"

Innermost(t) == IF held[t] = << >> THEN "System" ELSE held[t][Len(held[t])].c

(* C7: run by one thread, between calls the top index equals the number of *)
(* guards alive (each constructor pushed once, each drop popped once), and *)
(* an allocation is always dispatched to the context of the innermost      *)
(* guard alive: the inner guard's while it lives, the enclosing one's      *)
(* again once it is dropped.                                               *)
C7_InnermostGuardGoverns ==
    \A t \in threads :
        pc[t] = "idle" =>
            /\ ctx_ptr = Len(held[t])
            /\ ret[t].op = "alloc" => ret[t].be = Innermost(t)

(* main.rs: allocate under Arena, then under a nested Pool guard, and,     *)
(* after that guard is dropped, under Arena again.                         *)
C7_Witness ==
    /\ Len(allocs) = 3
    /\ allocs[1].be = "Arena" /\ allocs[2].be = "Pool" /\ allocs[3].be = "Arena"
    /\ Len(held[1]) = 1 /\ ret[1].op = "alloc" /\ ret[1].be = "Arena"

(* C8: the top index of the context stack is always within [0, 1023]. *)
C8_IndexInRange == ctx_ptr \in 0 .. CTX_CAP - 1

(* C9: a dealloc call changes no counter and nothing of the stack,         *)
(* whatever layout it is given and whichever context is active.            *)
C9_DeallocNoOp ==
    [][\A t \in threads :
         (\E layout \in Layouts : GlobalAlloc_dealloc(t, layout.size))
            => UNCHANGED <<system_allocated, remaining, ctx_ptr, ctx>>]_vars

(* A dealloc returned after memory had been obtained from the System       *)
(* backend, with a guard alive.                                            *)
C9_Witness ==
    \E t \in threads :
        /\ ret[t].op = "dealloc"
        /\ system_allocated > 0
        /\ ctx_ptr > 0

(* C10: each remaining counter starts at 131072, no step increases it, and *)
(* it stays within [0, 131072].                                            *)
C10_RemainingMonotone ==
    /\ \A b \in BumpBackends : remaining[b] = 131072
    /\ [][\A b \in BumpBackends :
            /\ remaining'[b] <= remaining[b]
            /\ remaining'[b] \in 0 .. 131072]_vars

(* The arena's counter has gone down to 0 in two steps. *)
C10_Witness ==
    /\ remaining["Arena"] = 0
    /\ Len(allocs) = 2

RoundDown(n, a) == n - (n % a)

(* The step of thread t on which its compare-exchange succeeds. *)
CasSucceeds(t) ==
    /\ pc[t] = "fetch_update_cas"
    /\ pc'[t] = "idle"
    /\ ret'[t].ok

(* C11: a successful Arena or Pool alloc(size, align) that reserves        *)
(* against the remaining value r installs (r - size) rounded down to a     *)
(* multiple of align and returns that offset of the buffer; the bytes it   *)
(* consumes are at least size and fewer than size + align, 16 bytes        *)
(* aligned to 8 from a fresh buffer consume exactly 16; and the allocated  *)
(* figure of info() grows by what the remaining figure shrinks.            *)
C11_RoundedDownReservation ==
    [][\A t \in threads :
         /\ CasSucceeds(t) =>
              LET b == local[t].be
                  r == remaining[b]
                  size == local[t].size
                  align == local[t].align
                  new == remaining'[b]
              IN  /\ new = RoundDown(r - size, align)
                  /\ ret'[t].ptr = BufferBase(b) + new
                  /\ r - new >= size
                  /\ r - new < size + align
                  /\ (r = BufferSize(b) /\ size = 16 /\ align = 8) => r - new = 16
         /\ ret'[t].op = "info" =>
              /\ ret'[t].info.arena_allocated + ret'[t].info.arena_remaining = ARENA_SIZE
              /\ ret'[t].info.pool_allocated + ret'[t].info.pool_remaining = POOL_SIZE]_vars

(* info() reports 16 bytes allocated in a fresh arena after 16 bytes       *)
(* aligned to 8 were taken from it.                                        *)
C11_Witness ==
    \E t \in threads :
        /\ ret[t].op = "info"
        /\ ret[t].info.arena_allocated = 16
        /\ ret[t].info.arena_remaining = ARENA_SIZE - 16
        /\ Len(allocs) = 1 /\ allocs[1].size = 16 /\ allocs[1].align = 8

InfoPcs == {"info_arena", "info_pool"}

(* C12: a single thread that calls info() twice in a row gets the same     *)
(* five figures both times, and no step of info() changes a counter or     *)
(* the context stack.                                                      *)
C12_InfoIdempotent ==
    [][\A t \in threads :
         /\ (pc[t] = "info_pool" /\ pc'[t] = "idle" /\ ret[t].op = "info")
               => ret'[t].info = ret[t].info
         /\ (pc[t] \in InfoPcs \/ pc'[t] \in InfoPcs)
               => UNCHANGED <<system_allocated, remaining, ctx_ptr, ctx>>]_vars

(* The second of two info() calls in a row has read the figures the first  *)
(* returned, after memory was taken from the System backend and from the   *)
(* arena.                                                                  *)
C12_Witness ==
    /\ pc[1] = "info_pool"
    /\ ret[1].op = "info"
    /\ local[1].i_sys = ret[1].info.system_allocated
    /\ local[1].i_arena = ret[1].info.arena_remaining
    /\ ret[1].info.system_allocated > 0
    /\ ret[1].info.arena_allocated > 0

(* The successful reservations of backend b, in the order in which their   *)
(* compare-exchanges succeeded.                                            *)
Reservations(b) == SelectSeq(allocs, LAMBDA a : a.be = b)

(* The remaining value after the first n reservations of s are applied     *)
(* one at a time to a buffer of the given size.                            *)
RECURSIVE Replay(_, _, _)
Replay(s, n, size) ==
    IF n = 0 THEN size
    ELSE RoundDown(Replay(s, n - 1, size) - s[n].size, s[n].align)

(* C13: however concurrent alloc calls on one bump backend interleave,     *)
(* the ranges reserved are pairwise disjoint, each reservation got the     *)
(* offset it would get if the successful reservations were applied one at  *)
(* a time in the order of their compare-exchanges, and the remaining       *)
(* value is the one that sequence ends with: no update is lost.            *)
C13_NoLostUpdate ==
    \A b \in BumpBackends :
        LET s == Reservations(b)
        IN  /\ remaining[b] = Replay(s, Len(s), BufferSize(b))
            /\ \A n \in 1 .. Len(s) :
                 /\ Offset(s[n]) = Replay(s, n, BufferSize(b))
                 /\ Replay(s, n - 1, BufferSize(b)) >= s[n].size
            /\ \A m, n \in 1 .. Len(s) : m < n => Disjoint(s[m], s[n])

(* A thread is between its load and its compare-exchange, and the other   *)
(* thread's reservation in the same backend has succeeded in between: the  *)
(* exchange is going to fail and be retried on the value now there.        *)
C13_Witness ==
    \E t, u \in threads :
        /\ t # u
        /\ pc[t] = "fetch_update_cas"
        /\ local[t].prev # remaining[local[t].be]
        /\ local[t].size > 0
        /\ BumpRet(ret[u]) /\ ret[u].ok /\ ret[u].be = local[t].be
        /\ ret[u].size > 0
        /\ Offset(ret[u]) = remaining[local[t].be]

(* The step on which thread t's alloc call reads its slot of the stack. *)
DispatchStep(t) == pc[t] = "dispatch" /\ pc'[t] # "dispatch"

(* The backend that step selects. *)
DispatchedTo(t) == IF pc'[t] = "idle" THEN ret'[t].be ELSE local'[t].be

(* C14: push_allocator advances the top index on one step, with every slot *)
(* as it was, and writes slot idx + 1 on a later step, with the index as   *)
(* it is; an alloc call of another thread that read the advanced index and *)
(* dispatches between the two steps is dispatched on what the slot held    *)
(* before the push, whatever context is being pushed.                      *)
C14_TwoStepPush ==
    [][\A t \in threads :
         /\ (pc[t] = "idle" /\ pc'[t] = "push_write")
               => /\ ctx_ptr' = ctx_ptr + 1
                  /\ ctx' = ctx
                  /\ local'[t].old = ctx_at(ctx_ptr')
         /\ (pc[t] = "push_write" /\ pc'[t] = "idle")
               => /\ ctx_ptr' = ctx_ptr
                  /\ ctx' = ctx_store(local[t].idx + 1, local[t].c)
         /\ \A u \in threads \ {t} :
              (/\ pc[t] = "push_write"
               /\ DispatchStep(u)
               /\ local[u].idx = local[t].idx + 1
               /\ local[u].idx < CTX_CAP
               /\ ctx_at(local[u].idx) = local[t].old)
                  => DispatchedTo(u) = dispatch_backend(local[t].old)]_vars

(* With a push of one thread between its two steps, an alloc call of the   *)
(* other thread has read the advanced index and been dispatched to the     *)
(* backend of the slot's old content, which is not the context pushed.     *)
C14_Witness ==
    \E t, u \in threads :
        /\ t # u
        /\ pc[t] = "push_write"
        /\ pc[u] \in {"system_alloc", "fetch_update_load", "fetch_update_cas"}
        /\ local[u].idx = local[t].idx + 1
        /\ ctx_ptr = local[u].idx
        /\ local[u].be = dispatch_backend(local[t].old)
        /\ local[u].be # dispatch_backend(local[t].c)

(* The guard thread t constructed last and still holds. *)
LastGuard(t) == held[t][Len(held[t])]

(* Slot i of the stack after the step. *)
ctx_after(i) == IF i \in DOMAIN ctx' THEN ctx'[i] ELSE "System"

(* The step on which thread t's push writes its slot. *)
PushWrites(t) == pc[t] = "push_write" /\ pc'[t] = "idle"

SoleHolder(t) ==
    /\ held[t] # << >>
    /\ pc[t] # "push_write"
    /\ \A u \in threads \ {t} : held[u] = << >> /\ pc[u] # "push_write"

(* C16: the active context is one for the whole process.  While thread t   *)
(* holds a guard for context c and no other guard is alive or under        *)
(* construction, an alloc call of any other thread that read the index     *)
(* t's push left is dispatched to c's backend, with no guard of its own.   *)
C16_ProcessGlobalContext ==
    [][\A t \in threads : \A u \in threads \ {t} :
         (/\ SoleHolder(t)
          /\ DispatchStep(u)
          /\ local[u].idx = LastGuard(t).at + 1)
            => DispatchedTo(u) = dispatch_backend(LastGuard(t).c)]_vars

(* A thread that never constructed a guard got memory from the pool while  *)
(* the other thread held its Pool guard.                                   *)
C16_Witness ==
    \E t, u \in threads :
        /\ t # u
        /\ SoleHolder(t)
        /\ LastGuard(t).c = "Pool"
        /\ ctx_ptr = LastGuard(t).at + 1
        /\ ret[u].op = "alloc" /\ ret[u].ok /\ ret[u].be = "Pool"
        /\ ret[t].op = "push"

BumpPcs == {"fetch_update_load", "fetch_update_cas"}

(* C17: when every thread that can take a step is eventually run, every    *)
(* Arena or Pool alloc call returns, with memory or with null; and the     *)
(* loop of fetch_update goes round again only when the counter no longer   *)
(* holds the value the thread read, which only a successful                *)
(* compare-exchange of another thread brings about: the counter has gone   *)
(* down in between.                                                        *)
C17_AllocTerminates ==
    /\ [][\A t \in threads :
            (pc[t] = "fetch_update_cas" /\ pc'[t] = "fetch_update_cas" /\ local'[t] # local[t])
               => /\ remaining[local[t].be] < local[t].prev
                  /\ local'[t].prev = remaining[local[t].be]
                  /\ remaining' = remaining]_vars
    /\ \A t \in AllThreads :
         (pc[t] \in BumpPcs) ~> (pc[t] = "idle" /\ BumpRet(ret[t]))

(* Every call has been started, and the one still running has to retry     *)
(* its compare-exchange: the other thread's reservation came in between,   *)
(* and the request still fits.                                             *)
C17_Witness ==
    \E t, u \in threads :
        /\ t # u
        /\ started = Budget
        /\ pc[u] = "idle"
        /\ pc[t] = "fetch_update_cas"
        /\ remaining[local[t].be] < local[t].prev
        /\ local[t].size <= remaining[local[t].be]

(* The step on which thread t's System allocation returns. *)
SystemReturns(t) == pc[t] = "system_alloc" /\ pc'[t] = "idle"

(* C18: system.allocated starts at 0; an allocation the System backend     *)
(* serves adds exactly its requested size, one that fails adds nothing,    *)
(* and no other step changes the counter, dealloc and calls served by      *)
(* the other backends included.  The counter is therefore the sum of the   *)
(* sizes of the successful System allocations, and never goes down.        *)
C18_SystemAllocatedIsSum ==
    /\ system_allocated = 0
    /\ [][/\ \A t \in threads :
               /\ (SystemReturns(t) /\ ret'[t].ok)
                     => system_allocated' = system_allocated + ret'[t].size
               /\ (SystemReturns(t) /\ ~ret'[t].ok)
                     => system_allocated' = system_allocated
          /\ (\A t \in threads : ~SystemReturns(t))
                => system_allocated' = system_allocated
          /\ system_allocated' >= system_allocated]_vars

(* Two allocations of 3 and 16 bytes were served by the System backend     *)
(* and a dealloc has returned since: the counter is 19.                    *)
C18_Witness ==
    /\ system_allocated = 19
    /\ \E t \in threads : ret[t].op = "dealloc"

(* The counter values a snapshot reports. *)
Reported(i) == <<i.system_allocated, i.arena_remaining, i.pool_remaining>>

(* C19: info() reads the three counters with three separate loads, one per *)
(* step, and reports for each counter the value its own load found: the    *)
(* System figure is the one read first, the arena figure the one read      *)
(* second, the pool figure the one read last, whatever the counters hold   *)
(* by the time the call returns.  The combination reported need not be     *)
(* one the counters ever held together.                                    *)
C19_SeparateLoads ==
    [][\A t \in threads :
         /\ (pc[t] = "idle" /\ pc'[t] = "info_arena")
               => local'[t].i_sys = system_allocated
         /\ (pc[t] = "info_arena" /\ pc'[t] = "info_pool")
               => /\ local'[t].i_sys = local[t].i_sys
                  /\ local'[t].i_arena = remaining["Arena"]
         /\ (pc[t] = "info_pool" /\ pc'[t] = "idle")
               => /\ Reported(ret'[t].info) = <<local[t].i_sys, local[t].i_arena, remaining["Pool"]>>
                  /\ ret'[t].info.arena_allocated = ARENA_SIZE - local[t].i_arena
                  /\ ret'[t].info.pool_allocated = POOL_SIZE - remaining["Pool"]]_vars

(* info() has returned a combination of counter values that the allocator  *)
(* was never in.                                                           *)
C19_Witness ==
    \E t \in threads :
        /\ ret[t].op = "info"
        /\ Reported(ret[t].info) \notin seen

(* No guard is alive and none is under construction. *)
NoGuards == \A t \in threads : held[t] = << >> /\ pc[t] # "push_write"

(* C20: slot 0 of the stack is never written, a push writes slots 1 and    *)
(* up only; so, however the threads' guard constructions and drops         *)
(* interleave below the capacity, once every guard is dropped the top      *)
(* index is 0 again and the active context is System.                      *)
C20_BaseSlotStaysSystem ==
    /\ 0 \notin DOMAIN ctx
    /\ ctx_at(0) = "System"
    /\ NoGuards => (ctx_ptr = 0 /\ Current = "System")

(* Both threads constructed a guard, for different contexts and alive at   *)
(* the same time, and both have dropped it.                                *)
C20_Witness ==
    /\ NoGuards
    /\ \A t \in threads : ret[t].op = "pop"
    /\ {1, 2} \subseteq DOMAIN ctx
    /\ ctx[1] # ctx[2]
    /\ ctx[1] # "System" /\ ctx[2] # "System"

====
